---- MODULE Spec2Model ----
(***************************************************************************)
(* Model of js_util.hpp: the boundary layer between native objects and the *)
(* JavaScriptCore runtime.  The adapters generated by the WRAP_* macros,   *)
(* the finalizer of wrapper classes, the validated conversions and the     *)
(* schema marshaller RJSDictForPropertyArray.                              *)
(*                                                                         *)
(* Every entry point of the layer runs synchronously to completion inside  *)
(* one runtime call.  A specification therefore draws a pending call (req) *)
(* in Init and has one action per entry point, which applies the whole     *)
(* function and stores what the runtime observes (res).  The finalizer is  *)
(* modelled with the private slots of the wrapped objects as state.        *)
(***************************************************************************)
EXTENDS Integers, Sequences, FiniteSets, TLC

VARIABLES
    req,      \* the pending call of the runtime into this layer
    res,      \* what the call handed back to the runtime
    priv,     \* priv[o]: the private slot of wrapped object o
    deleted,  \* deleted[h]: how many times handle h was passed to delete
    fcount,   \* fcount[o]: how many times the finalizer ran on o
    got       \* the last result of RJSGetInternal

vars == <<req, res, priv, deleted, fcount, got>>

---------------------------------------------------------------------------
(* Bounds of the model *)

MaxNameLen == 3      \* characters in a property name
MaxSteps == 2        \* steps of a native implementation
MaxArgs == 3         \* argumentCount and expected counts range over 0..MaxArgs
MaxFinalize == 2     \* finalizer invocations per object
MaxObjects == 2      \* wrapped objects, and native handles to attach to them
MaxNum == 2          \* script numbers range over -MaxNum..MaxNum, and NaN
MaxProps == 3        \* properties of an object schema

---------------------------------------------------------------------------
(* Native exceptions: the C++ type thrown and its what() message.          *)
(* "non_std" stands for a thrown value not derived from std::exception.   *)

Exc(t, w) == [type |-> t, what |-> w]

NoException == Exc("none", "")

StdTypes == {"invalid_argument", "out_of_range", "runtime_error", "RJSException"}

IsStdException(e) == e.type \in StdTypes

(* The script error placed in the runtime's exception output slot. *)
ScriptError(msg) == [set |-> TRUE, message |-> msg]

NoError == [set |-> FALSE, message |-> ""]

(* RJSMakeError(ctx, std::exception &): a script error carrying what(). *)
RJSMakeError(e) == ScriptError(e.what)

(* RJSMakeError(ctx, const std::string &) *)
RJSMakeErrorMessage(msg) == ScriptError(msg)

(* RJSSetException: exceptionObject = RJSMakeError(ctx, exception) *)
RJSSetException(e) == RJSMakeError(e)

---------------------------------------------------------------------------
(* Property names are sequences of characters. *)

NameChars == {"0", "1", "-", "a", " "}

Digits == {"0", "1", "2", "3", "4", "5", "6", "7", "8", "9"}

DigitVal(c) ==
    CASE c = "0" -> 0 [] c = "1" -> 1 [] c = "2" -> 2 [] c = "3" -> 3
      [] c = "4" -> 4 [] c = "5" -> 5 [] c = "6" -> 6 [] c = "7" -> 7
      [] c = "8" -> 8 [] c = "9" -> 9

SeqsUpTo(S, n) == UNION {[1..k -> S] : k \in 0..n}

Names == SeqsUpTo(NameChars, MaxNameLen)

RECURSIVE Str(_)
(* RJSStringForJSString: the std::string of the characters *)
Str(s) == IF s = <<>> THEN "" ELSE Head(s) \o Str(Tail(s))

RECURSIVE SkipWs(_)
(* operator>> skips leading whitespace (the sentry of the stream) *)
SkipWs(s) == IF s # <<>> /\ Head(s) = " " THEN SkipWs(Tail(s)) ELSE s

RECURSIVE TakeDigits(_)
(* the longest prefix of decimal digits *)
TakeDigits(s) ==
    IF s # <<>> /\ Head(s) \in Digits THEN <<Head(s)>> \o TakeDigits(Tail(s))
    ELSE <<>>

RECURSIVE Decimal(_, _)
(* the value of a digit string, accumulated left to right *)
Decimal(ds, acc) ==
    IF ds = <<>> THEN acc ELSE Decimal(Tail(ds), 10 * acc + DigitVal(Head(ds)))

(* stot<long>(s): iss >> value reads optional whitespace, an optional sign *)
(* and the longest run of digits; what follows the digits is left unread.  *)
(* No digit: failbit, std::invalid_argument.  (A value beyond LONG_MAX     *)
(* also sets failbit; names of MaxNameLen characters stay far below it.)   *)
stot(s) ==
    LET t == SkipWs(s)
        signed == t # <<>> /\ Head(t) \in {"-", "+"}
        body == IF signed THEN Tail(t) ELSE t
        ds == TakeDigits(body)
        magnitude == Decimal(ds, 0)
    IN  IF ds = <<>>
        THEN [thrown |-> Exc("invalid_argument",
                             "Cannot convert string '" \o Str(s) \o "'"),
              value |-> 0]
        ELSE [thrown |-> NoException,
              value |-> IF signed /\ Head(t) = "-" THEN 0 - magnitude
                        ELSE magnitude]

(* A slip of the comparison: zero rejected with the negative numbers. *)
RJSValidatedPositiveIndex_Mut(indexStr) ==
    LET parsed == stot(indexStr)
    IN  IF parsed.thrown # NoException THEN parsed
        ELSE IF parsed.value <= 0
        THEN [thrown |-> Exc("out_of_range",
                             "Index " \o Str(indexStr) \o " cannot be less than zero."),
              value |-> 0]
        ELSE parsed

(* RJSValidatedPositiveIndex(std::string indexStr) *)
RJSValidatedPositiveIndex(indexStr) ==
    LET parsed == stot(indexStr)
    IN  IF parsed.thrown # NoException THEN parsed
        ELSE IF parsed.value < 0
        THEN [thrown |-> Exc("out_of_range",
                             "Index " \o Str(indexStr) \o " cannot be less than zero."),
              value |-> 0]
        ELSE parsed

---------------------------------------------------------------------------
(* Argument-count validation *)

DefaultMessage == "Invalid arguments"

(* message ?: "Invalid arguments"; the empty string stands for NULL *)
MessageOr(message, default) == IF message = "" THEN default ELSE message

(* RJSValidateArgumentCountIsAtLeast taken for the exact validation. *)
RJSValidateArgumentCount_Mut(argumentCount, expected, message) ==
    IF argumentCount < expected
    THEN Exc("invalid_argument", MessageOr(message, DefaultMessage))
    ELSE NoException

(* RJSValidateArgumentCount: the exception thrown, NoException if none *)
RJSValidateArgumentCount(argumentCount, expected, message) ==
    IF argumentCount # expected
    THEN Exc("invalid_argument", MessageOr(message, DefaultMessage))
    ELSE NoException

---------------------------------------------------------------------------
(* The native implementation wrapped by an adapter (CLASS_NAME::METHOD_NAME)*)
(* is a collaborator of this layer.  It is a bounded sequence of steps: a  *)
(* side effect, an assignment of the output slot taken by reference, a     *)
(* call of RJSValidateArgumentCount, or a throw.                           *)

Values == {"v1", "v2"}

Step(op, expected, message, value, exc) ==
    [op |-> op, expected |-> expected, message |-> message, value |-> value,
     exc |-> exc]

EffectSteps == {Step("effect", 0, "", "NULL", NoException)}

AssignSteps == {Step("assign", 0, "", v, NoException) : v \in Values}

ValidateSteps ==
    {Step("validate", e, m, "NULL", NoException) :
        e \in 0..MaxArgs, m \in {"", "custom message"}}

Throwable ==
    {Exc(t, t \o " raised by native code") : t \in StdTypes} \cup {Exc("non_std", "")}

ThrowSteps == {Step("throw", 0, "", "NULL", e) : e \in Throwable}

Impls(steps) == SeqsUpTo(steps, MaxSteps)

(* The state of a running native implementation: the steps entered, the   *)
(* side effects made, the output slot and the exception in flight.        *)
InitRun == [ran |-> 0, effects |-> 0, slot |-> "NULL", thrown |-> NoException]

RECURSIVE Exec(_, _, _, _)
(* METHOD(ARGS): runs the steps from the i-th until one throws *)
Exec(impl, i, argc, st) ==
    IF i > Len(impl) THEN st
    ELSE
        LET s == impl[i]
            st1 == [st EXCEPT !.ran = i]
        IN  CASE s.op = "effect" ->
                    Exec(impl, i + 1, argc, [st1 EXCEPT !.effects = @ + 1])
              [] s.op = "assign" ->
                    Exec(impl, i + 1, argc, [st1 EXCEPT !.slot = s.value])
              [] s.op = "validate" ->
                    LET e == RJSValidateArgumentCount(argc, s.expected, s.message)
                    IN  IF e # NoException THEN [st1 EXCEPT !.thrown = e]
                        ELSE Exec(impl, i + 1, argc, st1)
              [] s.op = "throw" -> [st1 EXCEPT !.thrown = s.exc]

RunImpl(impl, argc) == Exec(impl, 1, argc, InitRun)

---------------------------------------------------------------------------
(* What the runtime observes of an adapter call: the returned value, the   *)
(* exception output slot *ex (empty on entry), whether an exception left   *)
(* the adapter, the indexes the native handler was invoked with, the run   *)
(* of the native implementation and who threw ("index" for the index       *)
(* parser, "impl" for the native implementation).                          *)
Outcome(ret, ex, escaped, calls, run, by) ==
    [done |-> TRUE, ret |-> ret, ex |-> ex, escaped |-> escaped, calls |-> calls,
     ran |-> run.ran, effects |-> run.effects, slot |-> run.slot,
     thrown |-> run.thrown, by |-> by]

Pending == [done |-> FALSE]

(* WRAP_EXCEPTION: try { METHOD(ARGS); } catch(std::exception &e)          *)
(* { RJSSetException(ctx, EXCEPTION, e); }, followed by the return         *)
(* statement of the adapter.                                               *)
WRAP_EXCEPTION(run, ret, calls) ==
    IF run.thrown = NoException THEN Outcome(ret, NoError, FALSE, calls, run, "none")
    ELSE IF IsStdException(run.thrown)
    THEN Outcome(ret, RJSSetException(run.thrown), FALSE, calls, run, "impl")
    ELSE Outcome("none", NoError, TRUE, calls, run, "impl")

(* WRAP_CLASS_METHOD: returnValue = NULL; WRAP_EXCEPTION; return returnValue *)
WRAP_CLASS_METHOD(r) ==
    LET run == RunImpl(r.impl, r.argc) IN WRAP_EXCEPTION(run, run.slot, <<>>)

(* WRAP_CONSTRUCTOR: returnObject = NULL; WRAP_EXCEPTION; return returnObject *)
WRAP_CONSTRUCTOR(r) ==
    LET run == RunImpl(r.impl, r.argc) IN WRAP_EXCEPTION(run, run.slot, <<>>)

(* WRAP_PROPERTY_GETTER: returnValue = NULL; WRAP_EXCEPTION; return returnValue *)
WRAP_PROPERTY_GETTER(r) ==
    LET run == RunImpl(r.impl, r.argc) IN WRAP_EXCEPTION(run, run.slot, <<>>)

(* WRAP_PROPERTY_SETTER: WRAP_EXCEPTION; return true *)
WRAP_PROPERTY_SETTER(r) ==
    LET run == RunImpl(r.impl, r.argc) IN WRAP_EXCEPTION(run, "true", <<>>)

(* The catch clauses of WRAP_INDEXED_GETTER, tried in order. *)
IndexedGetterCatch(e, calls, run, by) ==
    IF e.type = "out_of_range" THEN Outcome("undefined", NoError, FALSE, calls, run, by)
    ELSE IF e.type = "invalid_argument"
    THEN Outcome("NULL", NoError, FALSE, calls, run, by)
    ELSE IF IsStdException(e)
    THEN Outcome("NULL", RJSSetException(e), FALSE, calls, run, by)
    ELSE Outcome("none", NoError, TRUE, calls, run, by)

(* WRAP_INDEXED_GETTER *)
WRAP_INDEXED_GETTER(r) ==
    LET index == RJSValidatedPositiveIndex(r.name)
    IN  IF index.thrown # NoException
        THEN IndexedGetterCatch(index.thrown, <<>>,
                                [InitRun EXCEPT !.thrown = index.thrown], "index")
        ELSE
            LET run == RunImpl(r.impl, r.argc)
                calls == <<index.value>>
            IN  IF run.thrown = NoException
                THEN Outcome(run.slot, NoError, FALSE, calls, run, "none")
                ELSE IndexedGetterCatch(run.thrown, calls, run, "impl")

(* The catch clauses of WRAP_INDEXED_SETTER, tried in order, and the      *)
(* return false that follows them.                                         *)
IndexedSetterCatch(e, calls, run, by) ==
    IF e.type = "out_of_range"
    THEN Outcome("false", RJSSetException(e), FALSE, calls, run, by)
    ELSE IF e.type = "invalid_argument"
    THEN Outcome("false", RJSMakeErrorMessage("Invalid index"), FALSE, calls, run, by)
    ELSE IF IsStdException(e)
    THEN Outcome("false", RJSSetException(e), FALSE, calls, run, by)
    ELSE Outcome("none", NoError, TRUE, calls, run, by)

(* WRAP_INDEXED_SETTER *)
WRAP_INDEXED_SETTER(r) ==
    LET index == RJSValidatedPositiveIndex(r.name)
    IN  IF index.thrown # NoException
        THEN IndexedSetterCatch(index.thrown, <<>>,
                                [InitRun EXCEPT !.thrown = index.thrown], "index")
        ELSE
            LET run == RunImpl(r.impl, r.argc)
                calls == <<index.value>>
            IN  IF run.thrown = NoException
                THEN Outcome("true", NoError, FALSE, calls, run, "none")
                ELSE IndexedSetterCatch(run.thrown, calls, run, "impl")

---------------------------------------------------------------------------
(* The calls the runtime can make into the adapters. *)

Call(shape, name, argc, impl) ==
    [shape |-> shape, name |-> name, argc |-> argc, impl |-> impl]

(* A method and a constructor receive argumentCount; accessors do not, so  *)
(* their implementations have no argument count to validate, and a setter  *)
(* has no output slot to assign.                                           *)
MethodSteps == EffectSteps \cup AssignSteps \cup ValidateSteps \cup ThrowSteps

GetterSteps == EffectSteps \cup AssignSteps \cup ThrowSteps

SetterSteps == EffectSteps \cup ThrowSteps

(* the runtime calls one of the six adapters *)
AdapterCall ==
    \/ \E s \in {"method", "constructor"}, n \in 0..MaxArgs, i \in Impls(MethodSteps) :
          req = Call(s, <<>>, n, i)
    \/ \E i \in Impls(GetterSteps) : req = Call("getter", <<>>, 0, i)
    \/ \E i \in Impls(SetterSteps) : req = Call("setter", <<>>, 0, i)
    \/ \E n \in Names, i \in Impls(GetterSteps) : req = Call("indexed_getter", n, 0, i)
    \/ \E n \in Names, i \in Impls(SetterSteps) : req = Call("indexed_setter", n, 0, i)

NoHandles == [h \in {} |-> 0]

Idle == /\ priv = NoHandles
        /\ deleted = NoHandles
        /\ fcount = NoHandles
        /\ got = Pending

Init ==
    /\ AdapterCall
    /\ res = Pending
    /\ Idle

ClassMethod ==
    /\ ~res.done
    /\ req.shape = "method"
    /\ res' = WRAP_CLASS_METHOD(req)
    /\ UNCHANGED <<req, priv, deleted, fcount, got>>

Constructor ==
    /\ ~res.done
    /\ req.shape = "constructor"
    /\ res' = WRAP_CONSTRUCTOR(req)
    /\ UNCHANGED <<req, priv, deleted, fcount, got>>

PropertyGetter ==
    /\ ~res.done
    /\ req.shape = "getter"
    /\ res' = WRAP_PROPERTY_GETTER(req)
    /\ UNCHANGED <<req, priv, deleted, fcount, got>>

PropertySetter ==
    /\ ~res.done
    /\ req.shape = "setter"
    /\ res' = WRAP_PROPERTY_SETTER(req)
    /\ UNCHANGED <<req, priv, deleted, fcount, got>>

IndexedGetter ==
    /\ ~res.done
    /\ req.shape = "indexed_getter"
    /\ res' = WRAP_INDEXED_GETTER(req)
    /\ UNCHANGED <<req, priv, deleted, fcount, got>>

IndexedSetter ==
    /\ ~res.done
    /\ req.shape = "indexed_setter"
    /\ res' = WRAP_INDEXED_SETTER(req)
    /\ UNCHANGED <<req, priv, deleted, fcount, got>>

Next ==
    \/ ClassMethod
    \/ Constructor
    \/ PropertyGetter
    \/ PropertySetter
    \/ IndexedGetter
    \/ IndexedSetter

Spec == Init /\ [][Next]_vars

---------------------------------------------------------------------------
(* Properties of the adapters, checked under Spec *)

Indexed == req.shape \in {"indexed_getter", "indexed_setter"}

Parsed == stot(req.name)

RECURSIVE LastAssigned(_)
(* the value an implementation that runs to its end leaves in the output slot *)
LastAssigned(impl) ==
    IF impl = <<>> THEN "NULL"
    ELSE IF impl[Len(impl)].op = "assign" THEN impl[Len(impl)].value
    ELSE LastAssigned(SubSeq(impl, 1, Len(impl) - 1))

NeverThrows(impl) == \A i \in 1..Len(impl) : impl[i].op \notin {"throw", "validate"}

EffectsBefore(impl, i) == Cardinality({j \in 1..(i - 1) : impl[j].op = "effect"})

(* the validation at step i is reached and rejects the argument count *)
FailsValidationAt(impl, argc, i) ==
    /\ impl[i].op = "validate"
    /\ impl[i].expected # argc
    /\ \A j \in 1..(i - 1) :
          /\ impl[j].op # "throw"
          /\ impl[j].op = "validate" => impl[j].expected = argc

\* C1: in every adapter shape, a std::exception thrown by the wrapped native
\* implementation does not leave the adapter and ends in the exception output
\* slot as the script error built from that exception.
C1_NativeExceptionReported ==
    (res.done /\ res.by = "impl" /\ IsStdException(res.thrown)) =>
        /\ ~res.escaped
        /\ res.ex = ScriptError(res.thrown.what)

\* C2: in both indexed adapters a property name that parses to a negative
\* number sets the exception output slot to "Index <name> cannot be less than
\* zero." and the native indexed handler is not invoked.
C2_NegativeIndexRaises ==
    (res.done /\ Indexed /\ Parsed.thrown = NoException /\ Parsed.value < 0) =>
        /\ res.ex = ScriptError("Index " \o Str(req.name) \o " cannot be less than zero.")
        /\ res.calls = <<>>

\* C3: in both indexed adapters a property name that does not parse as an
\* integer invokes no handler and leaves the exception output slot unset, and
\* the indexed getter returns the script value undefined.
C3_UnparsableNameIsBenign ==
    (res.done /\ Indexed /\ Parsed.thrown # NoException) =>
        /\ res.calls = <<>>
        /\ res.ex = NoError
        /\ req.shape = "indexed_getter" => res.ret = "undefined"

\* C4: for a property name that parses to n >= 0 both indexed adapters invoke
\* the native handler exactly once, with index n; when the handler completes
\* without throwing, the exception output slot stays unset, the getter returns
\* the value the handler produced and the setter returns true.
C4_NonNegativeIndexDispatched ==
    (res.done /\ Indexed /\ Parsed.thrown = NoException /\ Parsed.value >= 0) =>
        /\ res.calls = <<Parsed.value>>
        /\ NeverThrows(req.impl) =>
              /\ res.ex = NoError
              /\ ~res.escaped
              /\ req.shape = "indexed_getter" => res.ret = LastAssigned(req.impl)
              /\ req.shape = "indexed_setter" => res.ret = "true"

(* the getter was asked for "10": the handler ran with index 10 and its value came back *)
C4_Witness ==
    /\ res.done
    /\ req.shape = "indexed_getter"
    /\ req.name = <<"1", "0">>
    /\ res.calls = <<10>>
    /\ res.ret = "v2"
    /\ res.ex = NoError

\* C9: RJSValidateArgumentCount raises exactly when the actual count differs
\* from the expected one, with the message "Invalid arguments" unless a custom
\* message is given; when it raises inside a native method run under the method
\* adapter, no later step of the method executes and the adapter reports the
\* error through the exception output slot.
C9_ArgumentCountValidated ==
    (res.done /\ req.shape = "method") =>
        \A i \in 1..Len(req.impl) :
            /\ (i <= res.ran /\ req.impl[i].op = "validate") =>
                  ((req.argc # req.impl[i].expected) <=>
                      /\ i = res.ran
                      /\ res.thrown =
                            Exc("invalid_argument",
                                IF req.impl[i].message = "" THEN "Invalid arguments"
                                ELSE req.impl[i].message))
            /\ FailsValidationAt(req.impl, req.argc, i) =>
                  /\ res.ran = i
                  /\ res.effects = EffectsBefore(req.impl, i)
                  /\ ~res.escaped
                  /\ res.ex.set
                  /\ res.ex.message = res.thrown.what
                  /\ res.thrown.type = "invalid_argument"

(* actual = 2, expected = 3, no custom message: the effect after the validation did not run *)
C9_Witness ==
    /\ res.done
    /\ req.shape = "method"
    /\ req.argc = 2
    /\ Len(req.impl) = 2
    /\ req.impl[1].op = "validate"
    /\ req.impl[1].expected = 3
    /\ req.impl[1].message = ""
    /\ req.impl[2].op = "effect"
    /\ res.effects = 0
    /\ res.ex = ScriptError("Invalid arguments")

\* C10: whenever the native constructor implementation throws a std::exception,
\* also after it has assigned the output slot, the constructor adapter returns
\* null with the exception output slot set; it returns a non-null object only
\* when the implementation completed without throwing.
C10_ConstructorNullOnFailure ==
    (res.done /\ req.shape = "constructor" /\ ~res.escaped) =>
        /\ res.thrown # NoException => (res.ret = "NULL" /\ res.ex.set)
        /\ res.ret # "NULL" => res.thrown = NoException

---------------------------------------------------------------------------
(* Finalization of wrapped objects.  A wrapped object carries a native     *)
(* handle in its private slot, or NULL; a handle is attached to at most    *)
(* one object.                                                             *)

NULL == 0

Objects == 1..MaxObjects

Handles == 1..MaxObjects

(* JSObjectGetPrivate(object) *)
JSObjectGetPrivate(p, object) == p[object]

(* JSObjectSetPrivate(object, data) *)
JSObjectSetPrivate(p, object, data) == [p EXCEPT ![object] = data]

(* delete ptr: deleting a null pointer does nothing *)
Delete(d, ptr) == IF ptr = NULL THEN d ELSE [d EXCEPT ![ptr] = @ + 1]

(* The finalizer without the JSObjectSetPrivate(object, NULL) that follows the delete. *)
RJSFinalize_Mut(p, d, object) ==
    [priv |-> p, deleted |-> Delete(d, JSObjectGetPrivate(p, object))]

(* RJSFinalize<T>(object): the private slots and the deletions after it *)
RJSFinalize(p, d, object) ==
    [priv |-> JSObjectSetPrivate(p, object, NULL),
     deleted |-> Delete(d, JSObjectGetPrivate(p, object))]

(* RJSGetInternal<T>(jsObject) *)
RJSGetInternal(p, jsObject) == JSObjectGetPrivate(p, jsObject)

NoGet == [done |-> FALSE, object |-> NULL, handle |-> NULL, destroyed |-> FALSE]

Attachments ==
    {p \in [Objects -> Handles \cup {NULL}] :
        \A a, b \in Objects : (a # b /\ p[a] # NULL) => p[a] # p[b]}

InitFinalize ==
    /\ priv \in Attachments
    /\ deleted = [h \in Handles |-> 0]
    /\ fcount = [o \in Objects |-> 0]
    /\ got = NoGet
    /\ req = Pending
    /\ res = Pending

(* the runtime invokes the finalizer of the wrapper class on object o *)
Finalize(o) ==
    /\ fcount[o] < MaxFinalize
    /\ LET after == RJSFinalize(priv, deleted, o)
       IN  /\ priv' = after.priv
           /\ deleted' = after.deleted
    /\ fcount' = [fcount EXCEPT ![o] = @ + 1]
    /\ UNCHANGED <<req, res, got>>

(* native code asks for the handle of object o *)
GetInternal(o) ==
    /\ LET h == RJSGetInternal(priv, o)
       IN  got' = [done |-> TRUE, object |-> o, handle |-> h,
                   destroyed |-> h # NULL /\ deleted[h] > 0]
    /\ UNCHANGED <<req, res, priv, deleted, fcount>>

NextFinalize ==
    \/ \E o \in Objects : Finalize(o)
    \/ \E o \in Objects : GetInternal(o)

SpecFinalize == InitFinalize /\ [][NextFinalize]_vars

\* C5: whatever the sequence of finalize invocations, also repeated ones on the
\* same object, every handle is destroyed at most once; once an object was
\* finalized its private slot is empty, and RJSGetInternal never hands out a
\* handle that was already destroyed.
C5_HandleDestroyedAtMostOnce ==
    /\ \A h \in Handles : deleted[h] <= 1
    /\ \A o \in Objects : fcount[o] >= 1 => priv[o] = NULL
    /\ got.done => ~got.destroyed

(* every handle was attached and destroyed, every object was finalized twice, *)
(* and RJSGetInternal on a finalized object returned the empty slot           *)
C5_Witness ==
    /\ \A o \in Objects : fcount[o] = 2
    /\ \A h \in Handles : deleted[h] = 1
    /\ got.done
    /\ got.handle = NULL
    /\ fcount[got.object] = 2

---------------------------------------------------------------------------
(* Script values, as far as the conversions look at them: the dynamic kind,*)
(* the number (or NaN), the characters of a string, and for an object the  *)
(* primitive its conversion yields ("raises" when the conversion raises a   *)
(* script exception).  A number is a double: n is its floor and half tells *)
(* whether one half is to be added (1.5 is n = 1 with half, -0.5 is n = -1 *)
(* with half).                                                             *)

JSValue(kind, nan, n, half, s, prim) ==
    [kind |-> kind, nan |-> nan, n |-> n, half |-> half, s |-> s, prim |-> prim]

JSNull == JSValue("null", FALSE, 0, FALSE, <<>>, "")

JSUndefined == JSValue("undefined", FALSE, 0, FALSE, <<>>, "")

JSBoolean(b) == JSValue("boolean", FALSE, IF b THEN 1 ELSE 0, FALSE, <<>>, "")

JSDouble(n, half) == JSValue("number", FALSE, n, half, <<>>, "")

JSNumber(n) == JSDouble(n, FALSE)

JSNaN == JSValue("number", TRUE, 0, FALSE, <<>>, "")

JSString(s) == JSValue("string", FALSE, 0, FALSE, s, "")

Primitives ==
    {JSNull, JSUndefined, JSNaN}
    \cup {JSBoolean(b) : b \in BOOLEAN}
    \cup {JSDouble(n, h) : n \in (0 - MaxNum)..MaxNum, h \in BOOLEAN}
    \cup {JSString(s) : s \in Names}

(* an object whose conversion to a primitive yields p *)
JSObject(p) == JSValue("object", p.nan, p.n, p.half, p.s, p.kind)

JSRaisingObject == JSValue("object", FALSE, 0, FALSE, <<>>, "raises")

ScriptValues == Primitives \cup {JSObject(p) : p \in Primitives} \cup {JSRaisingObject}

RECURSIVE TrimRight(_)
TrimRight(s) ==
    IF s # <<>> /\ s[Len(s)] = " " THEN TrimRight(SubSeq(s, 1, Len(s) - 1)) ELSE s

(* a converted number: a script exception, NaN, or the double (n, half) *)
Converted(exception, nan, n, half) ==
    [exception |-> exception, nan |-> nan, n |-> n, half |-> half]

(* The conversion of a string to a number by the runtime: surrounding      *)
(* whitespace is dropped, the empty string is 0, an optionally signed run  *)
(* of digits is its value, anything else is NaN.                           *)
StringToNumber(s) ==
    LET t == TrimRight(SkipWs(s))
        signed == t # <<>> /\ Head(t) \in {"-", "+"}
        body == IF signed THEN Tail(t) ELSE t
        ds == TakeDigits(body)
    IN  IF t = <<>> THEN Converted(FALSE, FALSE, 0, FALSE)
        ELSE IF ds = <<>> \/ Len(ds) # Len(body) THEN Converted(FALSE, TRUE, 0, FALSE)
        ELSE Converted(FALSE, FALSE,
                       IF Head(t) = "-" THEN 0 - Decimal(ds, 0) ELSE Decimal(ds, 0),
                       FALSE)

(* the conversion of a primitive of the given kind *)
PrimitiveToNumber(kind, nan, n, half, s) ==
    CASE kind = "undefined" -> Converted(FALSE, TRUE, 0, FALSE)
      [] kind = "null" -> Converted(FALSE, FALSE, 0, FALSE)
      [] kind = "boolean" -> Converted(FALSE, FALSE, n, FALSE)
      [] kind = "number" -> Converted(FALSE, nan, n, half)
      [] kind = "string" -> StringToNumber(s)

(* JSValueToNumber(ctx, value, &exception) *)
JSValueToNumber(value) ==
    IF value.kind = "object"
    THEN IF value.prim = "raises" THEN Converted(TRUE, FALSE, 0, FALSE)
         ELSE PrimitiveToNumber(value.prim, value.nan, value.n, value.half, value.s)
    ELSE PrimitiveToNumber(value.kind, value.nan, value.n, value.half, value.s)

(* JSValueIsNull(ctx, value) *)
JSValueIsNull(value) == value.kind = "null"

(* JSValueIsNumber(ctx, value) *)
JSValueIsNumber(value) == value.kind = "number"

(* the message "`null` is not a number."; a TLA+ string cannot hold a back *)
(* quote, an apostrophe stands for it                                      *)
NullMessage == "'null' is not a number."

(* what a validated conversion hands back: an exception thrown, or a double *)
Thrown(e) == [thrown |-> e, nan |-> FALSE, n |-> 0, half |-> FALSE]

Returned(nan, n, half) == [thrown |-> NoException, nan |-> nan, n |-> n, half |-> half]

(* RJSException(ctx, ex): a std::runtime_error whose message renders the script exception *)
RJSException == Exc("RJSException", "script exception")

(* The conversion without the test for null that precedes it. *)
RJSValidatedValueToNumber_Mut(value) ==
    LET number == JSValueToNumber(value)
    IN  IF number.exception THEN Thrown(RJSException)
        ELSE IF number.nan
        THEN Thrown(Exc("invalid_argument", "Value not convertible to a number."))
        ELSE Returned(number.nan, number.n, number.half)

(* RJSValidatedValueToNumber(ctx, value) *)
RJSValidatedValueToNumber(value) ==
    IF JSValueIsNull(value)
    THEN Thrown(Exc("invalid_argument", NullMessage))
    ELSE
        LET number == JSValueToNumber(value)
        IN  IF number.exception THEN Thrown(RJSException)
            ELSE IF number.nan
            THEN Thrown(Exc("invalid_argument", "Value not convertible to a number."))
            ELSE Returned(number.nan, number.n, number.half)

InitNumber ==
    /\ req \in ScriptValues
    /\ res = Pending
    /\ Idle

ValidatedValueToNumber ==
    /\ ~res.done
    /\ LET r == RJSValidatedValueToNumber(req)
       IN  res' = [done |-> TRUE, thrown |-> r.thrown,
                   returned |-> r.thrown = NoException, nan |-> r.nan, n |-> r.n,
                   half |-> r.half]
    /\ UNCHANGED <<req, priv, deleted, fcount, got>>

NextNumber == ValidatedValueToNumber

SpecNumber == InitNumber /\ [][NextNumber]_vars

(* a conversion error is the std::invalid_argument of the validated conversions *)
RaisedConversionError == res.thrown.type = "invalid_argument" /\ ~res.returned

\* C8: for every input that is null, is not a number, or converts to NaN, the
\* conversion raises ConversionError and returns no number; null is rejected,
\* not converted to zero; every number returned is not NaN.
C8_NonNumericRejected ==
    res.done =>
        /\ (JSValueIsNull(req) \/ ~JSValueIsNumber(req)
               \/ (~JSValueToNumber(req).exception /\ JSValueToNumber(req).nan))
              => RaisedConversionError
        /\ res.returned => ~res.nan

\* C8 (amended): null and every input whose conversion yields NaN raise
\* ConversionError and return no number; an input whose conversion raises a
\* script exception raises the RJSException wrapping it and returns no number;
\* every other input, a number or not (true, "1", ""), is returned as the
\* number it converts to, which is never NaN.
C8_UnconvertibleRejected ==
    res.done =>
        LET number == JSValueToNumber(req)
        IN  /\ req = JSNull => RaisedConversionError
            /\ (~number.exception /\ number.nan) => RaisedConversionError
            /\ (req # JSNull /\ number.exception) =>
                  (res.thrown.type = "RJSException" /\ ~res.returned)
            /\ (req # JSNull /\ ~number.exception /\ ~number.nan) =>
                  (res.returned /\ res.n = number.n /\ res.half = number.half)
            /\ res.returned => (~res.nan /\ req # JSNull)

(* null was rejected although its conversion is the number 0 *)
C8_Witness ==
    /\ res.done
    /\ req = JSNull
    /\ JSValueToNumber(req) = Converted(FALSE, FALSE, 0, FALSE)
    /\ res.thrown = Exc("invalid_argument", NullMessage)
    /\ ~res.returned

---------------------------------------------------------------------------
(* Schema-aware marshalling.  An object schema is the ordered list of its  *)
(* property names; the marshaller does not test that they are distinct.    *)
(* The array argument                                                      *)
(* is a script object with a length property and elements; reading an      *)
(* element yields its value, undefined beyond the stored elements, or      *)
(* raises a script exception where the object defines an accessor that     *)
(* raises ("raises").  The values v1 and v2 are primitives; "null" is the  *)
(* script value null and "guarded" an object with an accessor p3 whose     *)
(* setter raises and a data property p4 that is not writable.  A script    *)
(* array has the number of its elements as length and values as elements.  *)

PropertyNames == {"p3", "p4", "__proto__"}

Schemas == SeqsUpTo(PropertyNames, MaxProps)

(* the property names of a schema are unique within it *)
UniqueNames(schema) == \A i, j \in 1..Len(schema) : i # j => schema[i] # schema[j]

ElementValues == Values \cup {"null", "guarded", "undefined"}

(* the length property of the object: a number, NaN, absent, or an accessor *)
(* that raises a script exception when read                                *)
JSRaisingProperty == JSValue("raises", FALSE, 0, FALSE, <<>>, "")

Lengths ==
    {JSDouble(k, h) : k \in (0 - 2)..(MaxProps + 1), h \in BOOLEAN}
    \cup {JSNaN, JSUndefined, JSRaisingProperty}

Elements == SeqsUpTo({"v1", "null", "guarded", "raises"}, MaxProps)

(* The script environment the dictionary is made in.  In "plain" the       *)
(* prototype of plain objects is the one the runtime starts with.  In      *)
(* "polluted" a script gave it an accessor p3 whose setter raises and a    *)
(* data property p4 that is not writable.                                  *)
Environments == {"plain", "polluted"}

(* What the build does with the conversion of a negative double to size_t, *)
(* which is undefined: the value modulo 2^64, zero, or the largest size_t  *)
(* (the unsigned conversion instruction's answer to whatever it cannot     *)
(* represent).                                                             *)
NegativeToSize == {"wraps", "saturates", "maximum"}

(* static_cast of a double to size_t (the return of RJSValidatedListLength):*)
(* the fraction is discarded, towards zero.  A size_t is written as its    *)
(* reading as a signed 64-bit number, so a negative -k stands for 2^64 - k.*)
Truncated(n, half) == IF half /\ n < 0 THEN n + 1 ELSE n

DoubleToSize(n, half, negative) ==
    LET truncated == Truncated(n, half)
    IN  IF truncated >= 0 THEN truncated
        ELSE IF negative = "wraps" THEN truncated
        ELSE IF negative = "maximum" THEN 0 - 1
        ELSE 0

(* RJSValidatedListLength(ctx, object): the exception thrown, or the size_t *)
RJSValidatedListLength(object, negative) ==
    IF object.length = JSRaisingProperty THEN [thrown |-> RJSException, size |-> 0]
    ELSE IF ~JSValueIsNumber(object.length)
    THEN [thrown |-> Exc("runtime_error", "Missing property 'length'"), size |-> 0]
    ELSE
        LET number == RJSValidatedValueToNumber(object.length)
        IN  IF number.thrown # NoException THEN [thrown |-> number.thrown, size |-> 0]
            ELSE [thrown |-> NoException,
                  size |-> DoubleToSize(number.n, number.half, negative)]

(* JSObjectGetPropertyAtIndex(ctx, array, i, &exception), i counted from 1 *)
JSObjectGetPropertyAtIndex(array, i) ==
    IF i <= Len(array.elems) THEN array.elems[i] ELSE "undefined"

(* JSObjectMake(ctx, NULL, NULL): an object without properties of its own, *)
(* whose prototype is the Object.prototype of the environment              *)
JSObjectMake == [proto |-> "Object.prototype", own |-> [n \in {} |-> "undefined"]]

(* What an assignment to name finds on the prototype chain of an object    *)
(* whose prototype is proto: an accessor whose setter raises ("setter"),   *)
(* a data property that is not writable ("readonly"), the accessor         *)
(* __proto__ of Object.prototype ("__proto__"), or nothing that keeps the  *)
(* assignment from making a property ("none").  The chain is the guarded   *)
(* object, if it is the prototype, and then Object.prototype, to which the *)
(* polluted environment gave the same two properties; it is empty when the *)
(* prototype is null.                                                      *)
Inherited(proto, name, env) ==
    IF proto = "null" THEN "none"
    ELSE IF name = "__proto__" THEN "__proto__"
    ELSE IF (proto = "guarded" \/ env = "polluted") /\ name = "p3" THEN "setter"
    ELSE IF (proto = "guarded" \/ env = "polluted") /\ name = "p4" THEN "readonly"
    ELSE "none"

(* the object with the own data property name holding value *)
WithOwn(object, name, value) ==
    [object EXCEPT !.own = [n \in (DOMAIN object.own) \cup {name} |->
                                IF n = name THEN value ELSE object.own[n]]]

(* JSObjectSetProperty(ctx, dict, nameStr, value, kJSPropertyAttributeNone, *)
(* &exception): an ordinary assignment.  A property the object has of its  *)
(* own, which an earlier assignment made, takes the value, whatever the    *)
(* prototype chain holds.  Otherwise the chain decides: the setter of      *)
(* __proto__ makes a value that is null or an object the prototype of the  *)
(* object and drops any other value; an inherited setter that raises sets  *)
(* the exception; an inherited property that is not writable keeps the     *)
(* assignment from making a property; none of these adds a property to the *)
(* object.  In every other case the object gets the property.              *)
JSObjectSetProperty(object, name, value, env) ==
    IF name \in DOMAIN object.own
    THEN [raised |-> FALSE, object |-> WithOwn(object, name, value)]
    ELSE
        LET found == Inherited(object.proto, name, env)
        IN  CASE found = "__proto__" ->
                   [raised |-> FALSE,
                    object |-> IF value \in {"null", "guarded"}
                               THEN [object EXCEPT !.proto = value]
                               ELSE object]
              [] found = "setter" -> [raised |-> TRUE, object |-> object]
              [] found = "readonly" -> [raised |-> FALSE, object |-> object]
              [] found = "none" ->
                   [raised |-> FALSE, object |-> WithOwn(object, name, value)]

(* the outcome of the marshaller: the exception thrown, the dictionary, the *)
(* element reads and property sets made and whether a dictionary object    *)
(* was created                                                             *)
Marshalled(thrown, dict, reads, sets, created) ==
    [thrown |-> thrown, dict |-> dict, reads |-> reads, sets |-> sets,
     created |-> created]

RECURSIVE CopyProperties(_, _, _, _, _, _, _, _)
(* the for loop of RJSDictForPropertyArray from the i-th property to the last-th *)
CopyProperties(schema, array, env, i, last, dict, reads, sets) ==
    IF i > last THEN Marshalled(NoException, dict, reads, sets, TRUE)
    ELSE
        LET value == JSObjectGetPropertyAtIndex(array, i)
        IN  IF value = "raises"
            THEN Marshalled(RJSException, dict, reads + 1, sets, TRUE)
            ELSE
                LET set == JSObjectSetProperty(dict, schema[i], value, env)
                IN  IF set.raised
                    THEN Marshalled(RJSException, dict, reads + 1, sets + 1, TRUE)
                    ELSE CopyProperties(schema, array, env, i + 1, last, set.object,
                                        reads + 1, sets + 1)

SchemaMismatch == Exc("runtime_error", "Array must contain values for all object properties")

(* The length test rejecting only the arrays that are too short. *)
RJSDictForPropertyArray_MutTest(schema, array, env, negative) ==
    LET length == RJSValidatedListLength(array, negative)
    IN  IF length.thrown # NoException
        THEN Marshalled(length.thrown, JSObjectMake, 0, 0, FALSE)
        ELSE IF Len(schema) > length.size
        THEN Marshalled(SchemaMismatch, JSObjectMake, 0, 0, FALSE)
        ELSE CopyProperties(schema, array, env, 1, Len(schema), JSObjectMake, 0, 0)

(* RJSDictForPropertyArray(ctx, object_schema, array) *)
RJSDictForPropertyArray(schema, array, env, negative) ==
    LET length == RJSValidatedListLength(array, negative)
    IN  IF length.thrown # NoException
        THEN Marshalled(length.thrown, JSObjectMake, 0, 0, FALSE)
        ELSE IF Len(schema) # length.size
        THEN Marshalled(SchemaMismatch, JSObjectMake, 0, 0, FALSE)
        ELSE CopyProperties(schema, array, env, 1, Len(schema), JSObjectMake, 0, 0)

(* The outcomes of the conversion of the length to size_t among which the  *)
(* build chooses: all of them where the conversion is undefined, the       *)
(* length being a number below -1 or equal to it; otherwise the conversion *)
(* is defined and there is nothing to choose.                              *)
SizeConversions(array) ==
    IF /\ JSValueIsNumber(array.length)
       /\ ~array.length.nan
       /\ Truncated(array.length.n, array.length.half) < 0
    THEN NegativeToSize
    ELSE {"wraps"}

InitMarshal ==
    /\ \E env \in Environments, sc \in Schemas, l \in Lengths, e \in Elements :
          req = [env |-> env, schema |-> sc, array |-> [length |-> l, elems |-> e]]
    /\ res = Pending
    /\ Idle

(* native code marshals the array; a dictionary is handed back only when   *)
(* nothing was thrown                                                      *)
DictForPropertyArray ==
    /\ ~res.done
    /\ \E negative \in SizeConversions(req.array) :
          LET m == RJSDictForPropertyArray(req.schema, req.array, req.env, negative)
          IN  res' = [done |-> TRUE, thrown |-> m.thrown,
                      returned |-> m.thrown = NoException,
                      dict |-> IF m.thrown = NoException THEN m.dict ELSE JSObjectMake,
                      reads |-> m.reads, sets |-> m.sets, created |-> m.created]
    /\ UNCHANGED <<req, priv, deleted, fcount, got>>

NextMarshal == DictForPropertyArray

SpecMarshal == InitMarshal /\ [][NextMarshal]_vars

(* a script array: its length is the number of its elements, which are values *)
IsScriptArray(array) ==
    /\ array.length = JSNumber(Len(array.elems))
    /\ \A i \in 1..Len(array.elems) : array.elems[i] \in ElementValues

\* C6: for a script array of length N and a schema of N properties (whose
\* names are unique, as the names of a schema are) the marshaller returns a
\* dictionary whose keys are the property names of the schema and whose value
\* under the i-th property name is the i-th element of the array, unmodified.
C6_DictMatchesSchema ==
    (/\ res.done
     /\ UniqueNames(req.schema)
     /\ IsScriptArray(req.array)
     /\ Len(req.array.elems) = Len(req.schema)) =>
        /\ res.returned
        /\ DOMAIN res.dict.own = {req.schema[i] : i \in 1..Len(req.schema)}
        /\ \A i \in 1..Len(req.schema) : res.dict.own[req.schema[i]] = req.array.elems[i]

\* C7: for a script array whose length differs from the number of properties
\* of the schema, shorter or longer, the marshaller raises SchemaMismatchError
\* ("Array must contain values for all object properties") before it reads an
\* element or creates a dictionary, and hands back no dictionary.
C7_LengthMismatchRaises ==
    (res.done /\ IsScriptArray(req.array) /\ Len(req.array.elems) # Len(req.schema)) =>
        /\ res.thrown =
              Exc("runtime_error", "Array must contain values for all object properties")
        /\ res.reads = 0
        /\ res.sets = 0
        /\ ~res.created
        /\ ~res.returned
        /\ res.dict = JSObjectMake

(* an array longer than the schema was rejected before anything was read *)
C7_Witness ==
    /\ res.done
    /\ Len(req.schema) = 1
    /\ req.array = [length |-> JSNumber(2), elems |-> <<"v1", "null">>]
    /\ res.thrown.what = "Array must contain values for all object properties"
    /\ res.reads = 0
    /\ ~res.returned

====
